---- MODULE Spec2Model ----
(***************************************************************************)
(* Pick-and-place sequencer (main.py): a linear script that resolves named *)
(* scene items in the simulator, runs a fixed sequence of gripper / robot  *)
(* commands, and finally puts the blocks back where they were.             *)
(*                                                                         *)
(* A scene item is identified by <<type, name>>.  The scene is the set of  *)
(* items that exist (Item.Valid() is membership in scene).  Poses are      *)
(* one-dimensional transforms: integers composed by addition, so that      *)
(* absolute pose = parent's absolute pose + pose relative to the parent.   *)
(***************************************************************************)
EXTENDS Integers, Sequences, FiniteSets, TLC

VARIABLES
    scene,          \* items that exist in the simulator's station
    strictApi,      \* does the simulator API raise on a call on an invalid item?
    frame_names,    \* argument of read_frames
    pc,             \* position of the script
    err,            \* the exception that ended the run (NoErr: none)
    frames,         \* registry: frame name -> item      (read_frames)
    targets,        \* registry: target name -> item     (read_targets)
    blocks,         \* registry: block name -> item      (read_blocks)
    blockPoses,     \* block name -> absolute pose captured at the start
    out,            \* the found / NOT FOUND lines printed by read_frames
    cmds,           \* motion, attach, detach and reset commands issued, in order
    gripperJoints,  \* the gripper's joint configuration (a gripper target name)
    toolPose,       \* absolute pose of the robot's tool
    poseFrame,      \* the robot's active reference frame
    blockParent,    \* scene graph: parent of every block
    blockRel,       \* scene graph: pose of every block relative to its parent
    resetIdx,       \* reset_blocks: index of the next block of the loop
    setPoseAbsLog   \* reset_blocks: the setPoseAbs calls made, <<block, pose>>

vars == <<scene, strictApi, frame_names, pc, err, frames, targets, blocks,
          blockPoses, out, cmds, gripperJoints, toolPose, poseFrame,
          blockParent, blockRel, resetIdx, setPoseAbsLog>>

\* ---------------------------------------------------------------- bounds
\* at most this many required/optional items are missing from the scene
MaxMissing == 2
\* read_frames in isolation: longest argument list tried
MaxLen == 3

\* ------------------------------------------------------ program constants
FRAME_NAMES ==
    <<"Ground", "Table", "Base Frame", "workframe", "UR3e Base",
      "Block1", "Block2", "Block3", "Block4", "Gripper">>

TARGET_NAMES == <<"Home", "Aprox1", "Block1", "Obj1", "Close", "Open">>

\* read_blocks: registry key -> name of the object in the station,
\* in the insertion order of the dict literal
BLOCK_NAMES == <<"Block1", "Block2", "Block3", "Block4">>

BlockObject(b) ==
    CASE b = "Block1" -> "_PIEZA_Bloque20x30x20"
      [] b = "Block2" -> "_PIEZA_Bloque20x30x10"
      [] b = "Block3" -> "_PIEZA_Bloque20x30x40"
      [] b = "Block4" -> "_PIEZA_Bloque20x30x30"

Range(s) == {s[i] : i \in DOMAIN s}

RobotItem   == <<"robot", "UR3e">>
GripperItem == <<"robot", "Zimmer HRC-03 Gripper">>
ToolItem    == <<"tool", "Tool 1">>
FrameItem(n)  == <<"frame", n>>
TargetItem(n) == <<"target", n>>
BlockItem(b)  == <<"object", BlockObject(b)>>

AllItems ==
    {RobotItem, GripperItem, ToolItem}
      \cup {FrameItem(n) : n \in Range(FRAME_NAMES)}
      \cup {TargetItem(n) : n \in Range(TARGET_NAMES)}
      \cup {BlockItem(b) : b \in Range(BLOCK_NAMES)}

\* Item.Valid()
Valid(item) == item \in scene

NoErr == [type |-> "none", name |-> ""]
EmptyDict == [n \in {} |-> 0]

\* ------------------------------------------------------------ scene data
\* absolute poses of the frames and of the robot targets in the station
FramePose(n) ==
    CASE n = "station"    -> 0
      [] n = "Ground"     -> 0
      [] n = "Table"      -> 10
      [] n = "Base Frame" -> 20
      [] n = "workframe"  -> 30
      [] n = "UR3e Base"  -> 40
      [] n = "Block1"     -> 50
      [] n = "Block2"     -> 60
      [] n = "Block3"     -> 70
      [] n = "Block4"     -> 80
      [] n = "Gripper"    -> 90

TargetPose(n) ==
    CASE n = "Home"   -> 100
      [] n = "Aprox1" -> 55
      [] n = "Block1" -> 52
      [] n = "Obj1"   -> 33

\* where every block lies when the run starts
InitBlockAbs(b) == FramePose(b) + 2

\* absolute pose of a parent in the scene graph: a frame, or the tool
ParentPose(p, tool) == IF p = "tool" THEN tool ELSE FramePose(p)

\* Item.Pose() of a block: its pose relative to its parent
Pose(b) == blockRel[b]

\* Item.PoseAbs() of a block that exists
PoseAbs(b) == ParentPose(blockParent[b], toolPose) + blockRel[b]

\* ------------------------------------------------------------ read_frames
\* the for loop of read_frames from index i on: acc.frames is the dict built
\* so far, acc.out the lines printed so far (<<name, found>>)
RECURSIVE read_frames_loop(_, _, _, _)
read_frames_loop(names, i, sc, acc) ==
    IF i > Len(names) THEN acc
    ELSE LET frame_name == names[i]
             frame      == FrameItem(frame_name)
         IN  IF frame \in sc
             THEN read_frames_loop(names, i + 1, sc,
                     [frames |-> (frame_name :> frame) @@ acc.frames,
                      out    |-> Append(acc.out, <<frame_name, TRUE>>)])
             ELSE read_frames_loop(names, i + 1, sc,
                     [frames |-> acc.frames,
                      out    |-> Append(acc.out, <<frame_name, FALSE>>)])

\* a read_frames as strict as read_targets: the loop ends at the first name
\* that is not found
read_frames_stops_at_missing(names, sc) ==
    LET missing == {i \in DOMAIN names : FrameItem(names[i]) \notin sc}
        first   == IF missing = {} THEN Len(names) + 1
                   ELSE CHOOSE i \in missing : \A j \in missing : i <= j
    IN  read_frames_loop(SubSeq(names, 1, first - 1), 1, sc,
                         [frames |-> EmptyDict, out |-> <<>>])

read_frames(names, sc) ==
    read_frames_loop(names, 1, sc, [frames |-> EmptyDict, out |-> <<>>])

\* ----------------------------------------------------------- read_targets
\* the for loop of read_targets: the dict, or the ValueError of the first
\* name of the list that is not valid
RECURSIVE read_targets_loop(_, _, _, _)
read_targets_loop(names, i, sc, acc) ==
    IF i > Len(names) THEN [targets |-> acc, err |-> NoErr]
    ELSE LET target_name == names[i]
             target      == TargetItem(target_name)
         IN  IF target \in sc
             THEN read_targets_loop(names, i + 1, sc, (target_name :> target) @@ acc)
             ELSE [targets |-> acc,
                   err |-> [type |-> "ValueError", name |-> target_name]]

\* a read_targets as lenient as read_frames: a name not found is left out
read_targets_skips_missing(names, sc) ==
    [targets |-> [n \in {m \in Range(names) : TargetItem(m) \in sc} |-> TargetItem(n)],
     err |-> NoErr]

read_targets(names, sc) == read_targets_loop(names, 1, sc, EmptyDict)

\* ------------------------------------------------------------ read_blocks
\* the dict literal of read_blocks: every block name is mapped to whatever
\* rdk.Item returned; validity is not looked at
read_blocks == [b \in Range(BLOCK_NAMES) |-> BlockItem(b)]

\* ------------------------------------------------------------------ state
env        == <<scene, strictApi, frame_names>>
registries == <<frames, targets, blocks, blockPoses, out>>
sceneGraph == <<gripperJoints, toolPose, poseFrame, blockParent, blockRel>>
resetVars  == <<resetIdx, setPoseAbsLog>>

RECURSIVE MissingSets(_)
MissingSets(k) ==
    IF k = 0 THEN {{}}
    ELSE LET prev == MissingSets(k - 1)
         IN  prev \cup {m \cup {x} : m \in prev, x \in AllItems}

\* the script's variables before its first statement
InitScript ==
    /\ err = NoErr
    /\ frames = EmptyDict
    /\ targets = EmptyDict
    /\ blocks = EmptyDict
    /\ blockPoses = EmptyDict
    /\ out = <<>>
    /\ cmds = <<>>
    /\ resetIdx = 1
    /\ setPoseAbsLog = <<>>

\* the station before the run: every block lies in its own frame when the
\* station has that frame, else directly under the station
InitStation ==
    /\ gripperJoints \in {"Open", "Close"}
    /\ toolPose = 0
    /\ poseFrame = "station"
    /\ blockParent = [b \in Range(BLOCK_NAMES) |->
                         IF FrameItem(b) \in scene THEN b ELSE "station"]
    /\ blockRel = [b \in Range(BLOCK_NAMES) |->
                         InitBlockAbs(b) - FramePose(blockParent[b])]

Init ==
    /\ scene \in {AllItems \ m : m \in MissingSets(MaxMissing)}
    /\ strictApi \in BOOLEAN
    /\ frame_names = FRAME_NAMES
    /\ pc = "robot"
    /\ InitScript
    /\ InitStation

\* an exception handler that puts the blocks back before the script ends
RaiseWithCleanup(e) ==
    /\ pc' = "done"
    /\ err' = e
    /\ blockParent' = [b \in Range(BLOCK_NAMES) |-> b]
    /\ blockRel' = [b \in Range(BLOCK_NAMES) |-> InitBlockAbs(b) - FramePose(b)]
    /\ UNCHANGED <<gripperJoints, toolPose, poseFrame>>

\* an uncaught exception ends the script: no handler, no finally block
Raise(e) ==
    /\ pc' = "done"
    /\ err' = e
    /\ UNCHANGED sceneGraph

ValueError(n)   == [type |-> "ValueError", name |-> n]
KeyError(n)     == [type |-> "KeyError", name |-> n]
InvalidItem(n)  == [type |-> "InvalidItem", name |-> n]
CommandError(n) == [type |-> "CommandError", name |-> n]

Goto(l) == pc' = l /\ err' = err

\* ------------------------------------------------------------- resolution
\* robot = RDK.Item('UR3e', ITEM_TYPE_ROBOT); raise if not robot.Valid()
GetRobot ==
    /\ pc = "robot"
    /\ IF Valid(RobotItem)
       THEN Goto("read_frames") /\ UNCHANGED sceneGraph
       ELSE Raise(ValueError("UR3e"))
    /\ UNCHANGED <<env, registries, cmds, resetVars>>

\* frames = read_frames(RDK, FRAME_NAMES)
ReadFrames ==
    /\ pc = "read_frames"
    /\ LET r == read_frames(frame_names, scene)
       IN  frames' = r.frames /\ out' = r.out
    /\ Goto("read_targets")
    /\ UNCHANGED <<env, targets, blocks, blockPoses, cmds, sceneGraph, resetVars>>

\* targets = read_targets(RDK, TARGET_NAMES)
ReadTargets ==
    /\ pc = "read_targets"
    /\ LET r == read_targets(TARGET_NAMES, scene)
       IN  IF r.err = NoErr
           THEN targets' = r.targets /\ Goto("read_blocks") /\ UNCHANGED sceneGraph
           ELSE targets' = targets /\ Raise(r.err)
    /\ UNCHANGED <<env, frames, blocks, blockPoses, out, cmds, resetVars>>

\* blocks = read_blocks(RDK)
ReadBlocks ==
    /\ pc = "read_blocks"
    /\ blocks' = read_blocks
    /\ Goto("capture")
    /\ UNCHANGED <<env, frames, targets, blockPoses, out, cmds, sceneGraph, resetVars>>

\* the names of seq whose item is not in the scene, first one first
FirstInvalid(seq, reg) ==
    LET bad == {i \in DOMAIN seq : ~Valid(reg[seq[i]])}
    IN  seq[CHOOSE i \in bad : \A j \in bad : i <= j]

\* blockPoses = {name: blocks[name].PoseAbs() for name in blocks.keys()}
\* PoseAbs of an item that does not exist: the API raises, or hands back
\* the identity pose
CaptureBlockPoses ==
    /\ pc = "capture"
    /\ IF strictApi /\ \E b \in DOMAIN blocks : ~Valid(blocks[b])
       THEN /\ Raise(InvalidItem(FirstInvalid(BLOCK_NAMES, blocks)))
            /\ blockPoses' = blockPoses
       ELSE /\ blockPoses' = [b \in DOMAIN blocks |->
                                 IF Valid(blocks[b]) THEN PoseAbs(b) ELSE 0]
            /\ Goto("gripper")
            /\ UNCHANGED sceneGraph
    /\ UNCHANGED <<env, frames, targets, blocks, out, cmds, resetVars>>

\* gripper = RDK.Item('Zimmer HRC-03 Gripper', ITEM_TYPE_ROBOT); raise if invalid
GetGripper ==
    /\ pc = "gripper"
    /\ IF Valid(GripperItem)
       THEN Goto("tcp") /\ UNCHANGED sceneGraph
       ELSE Raise(ValueError("Zimmer HRC-03 Gripper"))
    /\ UNCHANGED <<env, registries, cmds, resetVars>>

\* tcp = RDK.Item("Tool 1", ITEM_TYPE_TOOL); the test that follows is on
\* gripper.Valid(), not on tcp.Valid()
GetTcp ==
    /\ pc = "tcp"
    /\ IF Valid(GripperItem)
       THEN Goto("open1") /\ UNCHANGED sceneGraph
       ELSE Raise(ValueError("TCP"))
    /\ UNCHANGED <<env, registries, cmds, resetVars>>

\* ---------------------------------------------------------------- commands
Cmd(item, op, arg) == [item |-> item, op |-> op, arg |-> arg]

\* a command the simulator rejects (unreachable pose, collision, ...) raises
\* in the calling thread; one it accepts returns when the motion is over
CommandFails(c) == Raise(CommandError(c.arg))

\* gripper.MoveJ(targets[t])
GripperMoveJ(l, next, t) ==
    /\ pc = l
    /\ cmds' = Append(cmds, Cmd("gripper", "MoveJ", t))
    /\ \/ /\ gripperJoints' = t
          /\ Goto(next)
          /\ UNCHANGED <<toolPose, poseFrame, blockParent, blockRel>>
       \/ CommandFails(Cmd("gripper", "MoveJ", t))
    /\ UNCHANGED <<env, registries, resetVars>>

\* robot.MoveJ(targets[t]) and robot.MoveL(targets[t]): the tool, and what
\* hangs on it, ends at the target
RobotMove(l, next, op, t) ==
    /\ pc = l
    /\ cmds' = Append(cmds, Cmd("robot", op, t))
    /\ \/ /\ toolPose' = TargetPose(t)
          /\ Goto(next)
          /\ UNCHANGED <<gripperJoints, poseFrame, blockParent, blockRel>>
       \/ CommandFails(Cmd("robot", op, t))
    /\ UNCHANGED <<env, registries, resetVars>>

\* robot.setPoseFrame(frames[f]): frames[f] is a KeyError when read_frames
\* left f out
SetPoseFrame(l, next, f) ==
    /\ pc = l
    /\ IF f \in DOMAIN frames
       THEN /\ poseFrame' = f
            /\ Goto(next)
            /\ UNCHANGED <<gripperJoints, toolPose, blockParent, blockRel>>
       ELSE Raise(KeyError(f))
    /\ UNCHANGED <<env, registries, cmds, resetVars>>

OpenGripperInit  == GripperMoveJ("open1", "home", "Open")
MoveHome         == RobotMove("home", "frame_block1", "MoveJ", "Home")
FrameBlock1      == SetPoseFrame("frame_block1", "aprox1", "Block1")
MoveAprox1       == RobotMove("aprox1", "block1", "MoveJ", "Aprox1")
MoveBlock1       == RobotMove("block1", "close", "MoveL", "Block1")
CloseGripper     == GripperMoveJ("close", "attach", "Close")

\* the blocks of the candidate list that exist
Candidates == {b \in DOMAIN blocks : Valid(blocks[b])}

\* tcp.AttachClosest(list_objects=list(blocks.values())): the candidate
\* nearest to the tool becomes a child of the tool and stays where it is
AttachClosest ==
    /\ pc = "attach"
    /\ cmds' = Append(cmds, Cmd("tool", "AttachClosest", "blocks"))
    /\ \/ /\ Valid(ToolItem)
          /\ Candidates # {}
          /\ \E b \in Candidates :
                /\ blockParent' = [blockParent EXCEPT ![b] = "tool"]
                /\ blockRel' = [blockRel EXCEPT ![b] = PoseAbs(b) - toolPose]
          /\ Goto("frame_work")
          /\ UNCHANGED <<gripperJoints, toolPose, poseFrame>>
       \/ /\ Valid(ToolItem) /\ Candidates = {}
          /\ Goto("frame_work")
          /\ UNCHANGED sceneGraph
       \/ /\ ~Valid(ToolItem)
          /\ IF strictApi
             THEN Raise(InvalidItem("Tool 1"))
             ELSE Goto("frame_work") /\ UNCHANGED sceneGraph
       \/ CommandFails(Cmd("tool", "AttachClosest", "blocks"))
    /\ UNCHANGED <<env, registries, resetVars>>

FrameWorkframe   == SetPoseFrame("frame_work", "obj1", "workframe")
\* step 5 sent back to the approach target instead of the drop target
MoveObj1ToAprox1 == RobotMove("obj1", "open2", "MoveJ", "Aprox1")
MoveObj1         == RobotMove("obj1", "open2", "MoveJ", "Obj1")
OpenGripper      == GripperMoveJ("open2", "detach", "Open")

\* step 7 left out: the gripper opens and the script goes on
DetachAllLeftOut ==
    /\ pc = "detach"
    /\ Goto("frame_block1_again")
    /\ UNCHANGED <<env, registries, cmds, sceneGraph, resetVars>>

\* tcp.DetachAll(frames['workframe']): every child of the tool becomes a
\* child of the frame and stays where it is
DetachAll ==
    /\ pc = "detach"
    /\ IF "workframe" \notin DOMAIN frames
       THEN Raise(KeyError("workframe")) /\ cmds' = cmds
       ELSE /\ cmds' = Append(cmds, Cmd("tool", "DetachAll", "workframe"))
            /\ \/ /\ Valid(ToolItem)
                  /\ blockParent' = [b \in DOMAIN blockParent |->
                        IF blockParent[b] = "tool" THEN "workframe"
                        ELSE blockParent[b]]
                  /\ blockRel' = [b \in DOMAIN blockRel |->
                        IF blockParent[b] = "tool"
                        THEN PoseAbs(b) - FramePose("workframe")
                        ELSE blockRel[b]]
                  /\ Goto("frame_block1_again")
                  /\ UNCHANGED <<gripperJoints, toolPose, poseFrame>>
               \/ /\ ~Valid(ToolItem)
                  /\ IF strictApi
                     THEN Raise(InvalidItem("Tool 1"))
                     ELSE Goto("frame_block1_again") /\ UNCHANGED sceneGraph
               \/ CommandFails(Cmd("tool", "DetachAll", "workframe"))
    /\ UNCHANGED <<env, registries, resetVars>>

FrameBlock1Again == SetPoseFrame("frame_block1_again", "aprox1_again", "Block1")
MoveAprox1Again  == RobotMove("aprox1_again", "reset", "MoveJ", "Aprox1")

\* ------------------------------------------------------------ reset_blocks
\* Item.setParent(parent): the relative pose is kept, so the item moves
\* with the change of parent
setParent(b, parent) == [blockParent EXCEPT ![b] = parent]

\* Item.setPose(pose): the pose relative to the parent
setPose(b, parent, pose) == [blockRel EXCEPT ![b] = pose]

\* Item.setPoseAbs(pose): the pose relative to the station
setPoseAbs(b, parent, pose) ==
    [blockRel EXCEPT ![b] = pose - ParentPose(parent, toolPose)]

\* sleep(3); reset_blocks(blocks, frames, blockPoses)
ResetBlocksCall ==
    /\ pc = "reset"
    /\ cmds' = Append(cmds, Cmd("script", "reset_blocks", ""))
    /\ resetIdx' = 1
    /\ Goto("reset_loop")
    /\ UNCHANGED <<env, registries, sceneGraph, setPoseAbsLog>>

\* one turn of: for name in blocks.keys():
\*                  blocks[name].setParent(frames[name])
\*                  blocks[name].setPoseAbs(blockPoses[name])
ResetBlocksIter ==
    /\ pc = "reset_loop"
    /\ resetIdx <= Len(BLOCK_NAMES)
    /\ LET name == BLOCK_NAMES[resetIdx]
       IN  IF name \notin DOMAIN frames
           THEN Raise(KeyError(name)) /\ UNCHANGED resetVars
           ELSE IF ~Valid(blocks[name])
           THEN IF strictApi
                THEN Raise(InvalidItem(BlockObject(name))) /\ UNCHANGED resetVars
                ELSE /\ resetIdx' = resetIdx + 1
                     /\ setPoseAbsLog' = Append(setPoseAbsLog, <<name, blockPoses[name]>>)
                     /\ Goto("reset_loop")
                     /\ UNCHANGED sceneGraph
           ELSE /\ blockParent' = setParent(name, name)
                /\ blockRel' = setPoseAbs(name, name, blockPoses[name])
                /\ setPoseAbsLog' = Append(setPoseAbsLog, <<name, blockPoses[name]>>)
                /\ resetIdx' = resetIdx + 1
                /\ Goto("reset_loop")
                /\ UNCHANGED <<gripperJoints, toolPose, poseFrame>>
    /\ UNCHANGED <<env, registries, cmds>>

\* the loop is over; reset_blocks returns and the script ends
ResetBlocksReturn ==
    /\ pc = "reset_loop"
    /\ resetIdx > Len(BLOCK_NAMES)
    /\ Goto("done")
    /\ UNCHANGED <<env, registries, cmds, sceneGraph, resetVars>>

\* -------------------------------------------------------------------- run
Next ==
    \/ GetRobot \/ ReadFrames \/ ReadTargets \/ ReadBlocks
    \/ CaptureBlockPoses \/ GetGripper \/ GetTcp
    \/ OpenGripperInit \/ MoveHome \/ FrameBlock1 \/ MoveAprox1 \/ MoveBlock1
    \/ CloseGripper \/ AttachClosest \/ FrameWorkframe \/ MoveObj1
    \/ OpenGripper \/ DetachAll \/ FrameBlock1Again \/ MoveAprox1Again
    \/ ResetBlocksCall \/ ResetBlocksIter \/ ResetBlocksReturn

Spec == Init /\ [][Next]_vars

\* ------------------------------------------- read_frames on its own
\* names read_frames may be handed, and the lists of them tried
ListNames == {"Ground", "workframe", "Block1", "Block2"}

RECURSIVE Lists(_)
Lists(k) ==
    IF k = 0 THEN {<<>>}
    ELSE LET shorter == Lists(k - 1)
         IN  shorter \cup {Append(l, n) : l \in {m \in shorter : Len(m) = k - 1},
                                          n \in ListNames}

InitReadFrames ==
    /\ frame_names \in Lists(MaxLen)
    /\ scene \in {AllItems \ m : m \in SUBSET {FrameItem(n) : n \in Range(frame_names)}}
    /\ strictApi = TRUE
    /\ pc = "read_frames"
    /\ InitScript
    /\ InitStation

NextReadFrames == ReadFrames

SpecReadFrames == InitReadFrames /\ [][NextReadFrames]_vars

\* ------------------------------------------------------------- vocabulary
Done == pc = "done"

ResolutionPcs ==
    {"robot", "read_frames", "read_targets", "read_blocks", "capture", "gripper", "tcp"}

TargetsValid   == \A t \in Range(TARGET_NAMES) : Valid(TargetItem(t))
AllBlocksValid == \A b \in Range(BLOCK_NAMES) : Valid(BlockItem(b))
RequiredValid  == Valid(RobotItem) /\ TargetsValid /\ Valid(GripperItem)

\* the items missing from the scene
Missing == AllItems \ scene
OnlyFramesMissing == Missing \subseteq {FrameItem(n) : n \in Range(FRAME_NAMES)}

\* e names a required item that is missing
NamesMissingRequired(e) ==
    \/ e.name = "UR3e" /\ ~Valid(RobotItem)
    \/ e.name = "Zimmer HRC-03 Gripper" /\ ~Valid(GripperItem)
    \/ e.name \in Range(TARGET_NAMES) /\ ~Valid(TargetItem(e.name))

IsPrefix(s, t) == Len(s) <= Len(t) /\ SubSeq(t, 1, Len(s)) = s

Issued(op) == \E i \in DOMAIN cmds : cmds[i].op = op

\* the last command to `item` before position i of cmds (none: a blank one)
LastTo(item, i) ==
    LET before == {j \in 1..(i - 1) : cmds[j].item = item}
    IN  IF before = {} THEN Cmd(item, "", "")
        ELSE cmds[CHOOSE j \in before : \A k \in before : k <= j]

Attached == {b \in Range(BLOCK_NAMES) : blockParent[b] = "tool"}

ExpectedCmds ==
    << Cmd("gripper", "MoveJ", "Open"),
       Cmd("robot", "MoveJ", "Home"),
       Cmd("robot", "MoveJ", "Aprox1"),
       Cmd("robot", "MoveL", "Block1"),
       Cmd("gripper", "MoveJ", "Close"),
       Cmd("tool", "AttachClosest", "blocks"),
       Cmd("robot", "MoveJ", "Obj1"),
       Cmd("gripper", "MoveJ", "Open"),
       Cmd("tool", "DetachAll", "workframe"),
       Cmd("robot", "MoveJ", "Aprox1"),
       Cmd("script", "reset_blocks", "") >>

\* ================================================================= claims

\* C1: when the robot, a target of TARGET_NAMES or the gripper is missing,
\* the run never leaves the resolution phase and never issues a motion,
\* attach or detach command; it ends with an exception, and, the missing
\* items being among those three kinds (every block exists), that exception
\* is a ValueError naming a required item that is missing.
C1_RequiredMissingAborts ==
    ~RequiredValid =>
        /\ cmds = <<>>
        /\ pc \in ResolutionPcs \cup {"done"}
        /\ Done => err # NoErr
        /\ (Done /\ AllBlocksValid) =>
              err.type = "ValueError" /\ NamesMissingRequired(err)

\* the latest of these aborts: everything resolved but the gripper
C1_Witness ==
    /\ Done
    /\ ~Valid(GripperItem) /\ Valid(RobotItem) /\ TargetsValid /\ AllBlocksValid
    /\ err = ValueError("Zimmer HRC-03 Gripper")
    /\ DOMAIN blockPoses = Range(BLOCK_NAMES)

\* C2: with 'Tool 1' missing and robot, targets and gripper valid, the run
\* stops with a ValueError about the tool before any command is issued.
C2_ToolMissingAborts ==
    (~Valid(ToolItem) /\ RequiredValid /\ AllBlocksValid) =>
        /\ cmds = <<>>
        /\ pc \in ResolutionPcs \cup {"done"}
        /\ Done => err = ValueError("TCP")

\* C3 as stated: once a run that called reset_blocks has ended, every block
\* is at its captured pose, whichever optional frames are absent.
C3_ResetRestoresWheneverReached ==
    (Done /\ Issued("reset_blocks") /\ AllBlocksValid) =>
        \A b \in Range(BLOCK_NAMES) : PoseAbs(b) = blockPoses[b]

\* C3 amended: once reset_blocks has run to completion every block that
\* exists is at its captured pose; reset_blocks runs to completion when the
\* frames Block1..Block4 and the four blocks all exist.
C3_ResetRestoresWhenCompleted ==
    /\ (Done /\ err = NoErr) =>
          /\ Issued("reset_blocks")
          /\ \A b \in Range(BLOCK_NAMES) :
                Valid(BlockItem(b)) => PoseAbs(b) = blockPoses[b]
    /\ (Done /\ Issued("reset_blocks") /\ AllBlocksValid
             /\ \A b \in Range(BLOCK_NAMES) : Valid(FrameItem(b))) => err = NoErr

\* a completed run in which a block was carried away and put back
C3_Witness ==
    /\ Done /\ err = NoErr
    /\ Valid(ToolItem) /\ AllBlocksValid
    /\ Issued("DetachAll")
    /\ Len(setPoseAbsLog) = Len(BLOCK_NAMES)

\* C4: the commands issued are always a prefix of the declared sequence
\* (nothing reordered, skipped or repeated); a run that ends without an
\* exception has issued all of it; with every item in the scene only a
\* failing command keeps the run from completing; and while no exception
\* is pending every command issued so far has completed: gripper and tool
\* are where the last command to each sent them.
C4_DeclaredOrder ==
    /\ IsPrefix(cmds, ExpectedCmds)
    /\ (Done /\ err = NoErr) => cmds = ExpectedCmds
    /\ (Done /\ scene = AllItems /\ err.type # "CommandError") => err = NoErr
    /\ err = NoErr =>
          LET n == Len(cmds) + 1
              g == LastTo("gripper", n)
              r == LastTo("robot", n)
          IN  /\ g.op # "" => gripperJoints = g.arg
              /\ r.op # "" => toolPose = TargetPose(r.arg)

C4_Witness == Done /\ err = NoErr /\ scene = AllItems /\ cmds = ExpectedCmds

\* C5: read_frames never raises; it prints one line per name of its list, in
\* list order, saying whether the name was found; and the dict it returns
\* has exactly the names that are valid frames as keys, each mapped to its
\* frame item.
C5_ReadFramesSkipsMissing ==
    pc = "read_targets" =>
        /\ err = NoErr
        /\ out = [i \in 1..Len(frame_names) |->
                    <<frame_names[i], Valid(FrameItem(frame_names[i]))>>]
        /\ DOMAIN frames = {n \in Range(frame_names) : Valid(FrameItem(n))}
        /\ \A n \in DOMAIN frames : frames[n] = FrameItem(n)

\* a name behind an absent one was resolved
C5_Witness ==
    /\ pc = "read_targets"
    /\ \E i, j \in DOMAIN frame_names :
          /\ i < j
          /\ ~Valid(FrameItem(frame_names[i]))
          /\ frame_names[j] \in DOMAIN frames

\* C6: with a block missing (robot and targets in the scene), the run does
\* not get past read_blocks: it ends there with a ValueError naming the
\* block, no pose captured and no command issued.
C6_ReadBlocksRaises ==
    (~AllBlocksValid /\ Valid(RobotItem) /\ TargetsValid
        /\ pc \notin {"robot", "read_frames", "read_targets", "read_blocks"}) =>
        /\ Done
        /\ err.type = "ValueError"
        /\ \E b \in Range(BLOCK_NAMES) :
              ~Valid(BlockItem(b)) /\ err.name \in {b, BlockObject(b)}
        /\ blockPoses = EmptyDict
        /\ cmds = <<>>

\* C7 as stated: whatever step fails, reset_blocks has not been executed and
\* no block has been put back.
C7_FailureNeverInReset ==
    err # NoErr => ~Issued("reset_blocks") /\ setPoseAbsLog = <<>>

\* the failing step changes nothing in the scene and issues at most the
\* command that failed
FailingStepLeavesScene ==
    (err = NoErr /\ err' # NoErr) =>
        /\ sceneGraph' = sceneGraph
        /\ setPoseAbsLog' = setPoseAbsLog
        /\ \/ cmds' = cmds
           \/ /\ err'.type \in {"CommandError", "InvalidItem"}
              /\ Len(cmds') = Len(cmds) + 1
              /\ SubSeq(cmds', 1, Len(cmds)) = cmds

\* C7 amended: a step that fails ends the run there: nothing is enabled any
\* more (no retry, no later command), and the failing step leaves the scene
\* as the last successful step left it.  When the step that fails comes
\* before the call of reset_blocks, reset_blocks is not executed and no block
\* is put back.  When it is a step of reset_blocks itself (frames[name] for
\* an absent frame, or a call on a block that does not exist), the blocks
\* before that one in the registry have been put back and that block and
\* the later ones have not.
C7_FailureEndsRun ==
    /\ [](err # NoErr => Done /\ ~ENABLED Next)
    /\ [][FailingStepLeavesScene]_vars
    /\ [](err # NoErr =>
            IF Issued("reset_blocks")
            THEN /\ err.type \in {"KeyError", "InvalidItem"}
                 /\ resetIdx <= Len(BLOCK_NAMES)
                 /\ err.name \in {BLOCK_NAMES[resetIdx], BlockObject(BLOCK_NAMES[resetIdx])}
                 /\ Len(setPoseAbsLog) = resetIdx - 1
            ELSE setPoseAbsLog = <<>>)

\* a command failed while a block hung on the tool: it stays there
C7_Witness ==
    /\ Done
    /\ err.type = "CommandError"
    /\ Attached # {}
    /\ ~Issued("reset_blocks")

\* the frames the trajectory refers to, and those reset_blocks refers to
TrajectoryFrames == {"Block1", "workframe"}
ResetFrames      == Range(BLOCK_NAMES)

MissingFrames == {n \in Range(FRAME_NAMES) : ~Valid(FrameItem(n))}

\* a run in which only frames are missing and no command was rejected
FramesOnlyRun == OnlyFramesMissing /\ Done /\ err.type # "CommandError"

\* C8, its three cases
C8_Block1Absent ==
    (FramesOnlyRun /\ "Block1" \in MissingFrames) =>
        /\ err = KeyError("Block1")
        /\ cmds = SubSeq(ExpectedCmds, 1, 2)

C8_WorkframeAbsent ==
    (FramesOnlyRun /\ "workframe" \in MissingFrames /\ "Block1" \notin MissingFrames) =>
        /\ err = KeyError("workframe")
        /\ cmds = SubSeq(ExpectedCmds, 1, 6)
        /\ Attached # {}

\* frames are not looked at before the first command
C8_NotAtResolution ==
    (OnlyFramesMissing /\ Done) => cmds # <<>>

\* C8 as stated: with only frames the trajectory does not use absent,
\* trajectory and reset complete.
C8_UnusedByTrajectory ==
    /\ C8_NotAtResolution
    /\ C8_Block1Absent
    /\ C8_WorkframeAbsent
    /\ (FramesOnlyRun /\ MissingFrames # {}
            /\ MissingFrames \cap TrajectoryFrames = {}) => err = NoErr

\* C8 amended: with only frames absent that neither the trajectory nor
\* reset_blocks uses (Ground, Table, Base Frame, UR3e Base, Gripper),
\* trajectory and reset complete; with frame Block2, Block3 or Block4 absent
\* (and Block1, workframe present) the trajectory completes and reset_blocks
\* fails at the first block whose frame is absent.
C8_FailsAtPointOfUse ==
    /\ C8_NotAtResolution
    /\ C8_Block1Absent
    /\ C8_WorkframeAbsent
    /\ (FramesOnlyRun /\ MissingFrames \cap (TrajectoryFrames \cup ResetFrames) = {})
          => err = NoErr /\ cmds = ExpectedCmds
    /\ (FramesOnlyRun /\ MissingFrames \cap TrajectoryFrames = {}
            /\ MissingFrames \cap ResetFrames # {})
          => /\ err.type = "KeyError"
             /\ err.name \in MissingFrames \cap ResetFrames
             /\ \A n \in MissingFrames \cap ResetFrames :
                   \E i, j \in DOMAIN BLOCK_NAMES :
                      BLOCK_NAMES[i] = err.name /\ BLOCK_NAMES[j] = n /\ i <= j
             /\ cmds = ExpectedCmds

\* workframe absent: the run stopped with a block on the tool
C8_Witness ==
    /\ Done
    /\ MissingFrames = {"workframe"} /\ OnlyFramesMissing
    /\ err = KeyError("workframe")
    /\ Attached # {}

\* C9: blockPoses changes once, at the capture, when no command has been
\* issued yet, and holds for every block that exists the pose the block had
\* then; the frame, target and block registries change only where they are
\* built; a command is issued only with the poses captured; and every
\* setPoseAbs of reset_blocks is given the pose captured for that block.
C9_CapturedOnce ==
    /\ [][/\ blockPoses' # blockPoses =>
                /\ pc = "capture" /\ cmds = <<>> /\ blockPoses = EmptyDict
                /\ DOMAIN blockPoses' = Range(BLOCK_NAMES)
                /\ \A b \in Range(BLOCK_NAMES) :
                      Valid(BlockItem(b)) => blockPoses'[b] = InitBlockAbs(b)
          /\ frames' # frames => pc = "read_frames"
          /\ targets' # targets => pc = "read_targets"
          /\ blocks' # blocks => pc = "read_blocks"]_vars
    /\ [](cmds # <<>> => DOMAIN blockPoses = Range(BLOCK_NAMES))
    /\ [](\A i \in DOMAIN setPoseAbsLog :
             setPoseAbsLog[i] = <<BLOCK_NAMES[i], blockPoses[BLOCK_NAMES[i]]>>)

\* reset_blocks has put a block back that had been carried away
C9_Witness ==
    /\ Len(setPoseAbsLog) = Len(BLOCK_NAMES)
    /\ AllBlocksValid
    /\ Issued("DetachAll") /\ Valid(ToolItem)
    /\ \A b \in Range(BLOCK_NAMES) : blockPoses[b] = InitBlockAbs(b)

\* C10: AttachClosest follows gripper MoveJ(Close) and robot MoveL(Block1),
\* both completed; DetachAll follows AttachClosest, gripper MoveJ(Open) and
\* robot MoveJ(Obj1), both completed; a block hangs on the tool only after
\* AttachClosest and before DetachAll has completed; none hangs on it once
\* reset_blocks is called.
C10_GraspProtocol ==
    /\ \A i \in DOMAIN cmds :
          /\ cmds[i].op = "AttachClosest" =>
                /\ LastTo("gripper", i) = Cmd("gripper", "MoveJ", "Close")
                /\ LastTo("robot", i) = Cmd("robot", "MoveL", "Block1")
          /\ cmds[i].op = "DetachAll" =>
                /\ LastTo("tool", i) = Cmd("tool", "AttachClosest", "blocks")
                /\ LastTo("gripper", i) = Cmd("gripper", "MoveJ", "Open")
                /\ LastTo("robot", i) = Cmd("robot", "MoveJ", "Obj1")
    /\ pc = "attach" => gripperJoints = "Close" /\ toolPose = TargetPose("Block1")
    /\ pc = "detach" => gripperJoints = "Open" /\ toolPose = TargetPose("Obj1")
    /\ Attached # {} =>
          /\ Issued("AttachClosest")
          /\ Issued("DetachAll") => err # NoErr
    /\ Issued("reset_blocks") => Attached = {}

\* reset_blocks is at work after a grasp and a release
C10_Witness ==
    /\ pc = "reset_loop"
    /\ Valid(ToolItem) /\ AllBlocksValid
    /\ Issued("AttachClosest") /\ Issued("DetachAll")
    /\ \E b \in Range(BLOCK_NAMES) : blockParent[b] = "workframe"

====
